---- MODULE Spec2Model ----
(***************************************************************************)
(* A model of package datadirectory: the DataDirectory object, its         *)
(* metadata records, the metadata.csv codec, the directory scan and the    *)
(* validation of the records against the data models service catalog.      *)
(*                                                                         *)
(* Go strings are modelled as sequences of one-character strings, so that  *)
(* lower-casing, byte-wise ordering, quoting and parsing are computed and  *)
(* not assumed.  The empty Go string is the empty sequence.                *)
(***************************************************************************)
EXTENDS Integers, Sequences, FiniteSets, TLC

VARIABLES
    pc,      \* "start" before New, then "ready" with a DataDirectory or "failed"
    d,       \* the DataDirectory object (its fields, as New lays them out)
    files,   \* the data directory: relative path -> the entry found there
    w,       \* the text last written by WriteMetadata
    op,      \* the operation that ran last, with its inputs and observations
    err,     \* what the operation that ran last returned
    nOps,    \* number of operations of the package run since New
    nEdits,  \* number of changes made from outside: to a record, to a file
    handles  \* the paths of the file handles that are open, in the order opened

vars == <<pc, d, files, w, op, err, nOps, nEdits, handles>>

----------------------------------------------------------------------------
(* Strings *)

\* The characters of the model, in ascending byte order.
Alphabet ==
    << "\n", "\"", ",", "-", ".", "/",
       "0", "1", "2", "3", "4", "5", "6", "7", "8", "9",
       "A", "B", "C", "D", "E", "F", "G", "H", "I", "J", "K", "L", "M",
       "N", "O", "P", "Q", "R", "S", "T", "U", "V", "W", "X", "Y", "Z",
       "_",
       "a", "b", "c", "d", "e", "f", "g", "h", "i", "j", "k", "l", "m",
       "n", "o", "p", "q", "r", "s", "t", "u", "v", "w", "x", "y", "z" >>

Upper == << "A", "B", "C", "D", "E", "F", "G", "H", "I", "J", "K", "L", "M",
            "N", "O", "P", "Q", "R", "S", "T", "U", "V", "W", "X", "Y", "Z" >>

Lower == << "a", "b", "c", "d", "e", "f", "g", "h", "i", "j", "k", "l", "m",
            "n", "o", "p", "q", "r", "s", "t", "u", "v", "w", "x", "y", "z" >>

\* Position of a character of a sequence of characters.
IndexOf(seq, c) == CHOOSE i \in 1..Len(seq) : seq[i] = c

\* The byte order of characters.
Code(c) == IndexOf(Alphabet, c)

\* strings.ToLower, one character.
ToLowerChar(c) ==
    IF \E i \in 1..Len(Upper) : Upper[i] = c THEN Lower[IndexOf(Upper, c)] ELSE c

\* strings.ToLower.
RECURSIVE ToLower(_)
ToLower(s) == IF s = <<>> THEN <<>> ELSE <<ToLowerChar(Head(s))>> \o ToLower(Tail(s))

\* Go's < on strings: byte-wise lexicographic order.
RECURSIVE StrLess(_, _)
StrLess(a, b) ==
    IF a = <<>> THEN b # <<>>
    ELSE IF b = <<>> THEN FALSE
    ELSE IF a[1] = b[1] THEN StrLess(Tail(a), Tail(b))
    ELSE Code(a[1]) < Code(b[1])

\* Insertion of a string into an ascending sequence of strings.
RECURSIVE Insert(_, _)
Insert(s, sorted) ==
    IF sorted = <<>> THEN <<s>>
    ELSE IF StrLess(s, sorted[1]) THEN <<s>> \o sorted
    ELSE <<sorted[1]>> \o Insert(s, Tail(sorted))

\* sort.StringSlice.Sort: the strings of the slice in ascending byte order.
RECURSIVE Sort(_)
Sort(slice) ==
    IF slice = <<>> THEN <<>> ELSE Insert(slice[1], Sort(Tail(slice)))

\* strings.Join.
RECURSIVE Join(_, _)
Join(strs, sep) ==
    IF strs = <<>> THEN <<>>
    ELSE IF Len(strs) = 1 THEN strs[1]
    ELSE strs[1] \o sep \o Join(Tail(strs), sep)

\* The decimal digits.
Digits == << "0", "1", "2", "3", "4", "5", "6", "7", "8", "9" >>

\* strconv.Itoa of a natural number.
RECURSIVE Itoa(_)
Itoa(n) == IF n < 10 THEN <<Digits[n + 1]>> ELSE Itoa(n \div 10) \o <<Digits[(n % 10) + 1]>>

\* Elements of a sequence.
Range(seq) == {seq[i] : i \in 1..Len(seq)}

\* The last element of a non-empty sequence.
Last(seq) == seq[Len(seq)]

\* Go's map lookup: the zero value "" for a key the map lacks.
Get(m, k) == IF k \in DOMAIN m THEN m[k] ELSE <<>>

\* The map with no key.
EmptyMap == [x \in {} |-> <<>>]

\* Go's map assignment m[k] = v.
Put(m, k, v) == (k :> v) @@ m

\* The map m on the keys of `keys` (written with @@ so that TLC computes the
\* map once and not at each lookup).
Restrict(m, keys) == [x \in keys |-> m[x]] @@ EmptyMap

\* Go's delete(m, k).
Delete(m, k) == Restrict(m, DOMAIN m \ {k})

----------------------------------------------------------------------------
(* The header tables *)

organization == << "o", "r", "g", "a", "n", "i", "z", "a", "t", "i", "o", "n" >>
filename     == << "f", "i", "l", "e", "n", "a", "m", "e" >>
checksum     == << "c", "h", "e", "c", "k", "s", "u", "m" >>
cdm          == << "c", "d", "m" >>
cdmVersion   == << "c", "d", "m", "-", "v", "e", "r", "s", "i", "o", "n" >>
table        == << "t", "a", "b", "l", "e" >>
etl          == << "e", "t", "l" >>
dataVersion  == << "d", "a", "t", "a", "-", "v", "e", "r", "s", "i", "o", "n" >>
line         == << "l", "i", "n", "e" >>
site         == << "s", "i", "t", "e" >>

\* Default *ordered* header.
canonicalHeader ==
    << organization, filename, checksum, cdm, cdmVersion, table, etl, dataVersion >>

\* Permitted metadata header values and whether or not they are required.
headerReq ==
    [h \in Range(canonicalHeader) |-> h \notin {cdmVersion, dataVersion}]

\* The header values headerReq marks as required.
Required == {h \in DOMAIN headerReq : headerReq[h]}

----------------------------------------------------------------------------
(* The data models service *)

pedsnet == << "p", "e", "d", "s", "n", "e", "t" >>
pcornet == << "p", "c", "o", "r", "n", "e", "t" >>
foo     == << "f", "o", "o" >>
PEDSnet == << "P", "E", "D", "S", "n", "e", "t" >>

v1_0_0  == << "1", ".", "0", ".", "0" >>
v2_0_0  == << "2", ".", "0", ".", "0" >>
v2_1_0  == << "2", ".", "1", ".", "0" >>
v10_0_0 == << "1", "0", ".", "0", ".", "0" >>
v0_0_1  == << "0", ".", "0", ".", "1" >>

person      == << "p", "e", "r", "s", "o", "n" >>
visit       == << "v", "i", "s", "i", "t" >>
demographic == << "d", "e", "m", "o" >>
foobar      == << "f", "o", "o", "b", "a", "r" >>
Person      == << "P", "e", "r", "s", "o", "n" >>

\* A site, an ETL reference and data versions.
org     == << "o", "r", "g" >>
Org     == << "O", "r", "g" >>
etlUrl  == << "e", "/", "E", "T", "L" >>
dv3     == << "3" >>
dv5     == << "5" >>

\* What the service may list: one entry per model and version, with its tables.
ServiceEntries ==
    { [Name |-> pedsnet, Version |-> v2_0_0,  Tables |-> <<person>>],
      [Name |-> pedsnet, Version |-> v2_1_0,  Tables |-> <<person, visit>>],
      [Name |-> pedsnet, Version |-> v10_0_0, Tables |-> <<visit>>],
      [Name |-> pcornet, Version |-> v1_0_0,  Tables |-> <<demographic>>] }

\* Longest service listing explored.
MaxListing == 3

\* The listings of at most n entries, no entry twice, in every order.
RECURSIVE ListingsUpTo(_)
ListingsUpTo(n) ==
    IF n = 0 THEN {<<>>}
    ELSE LET shorter == ListingsUpTo(n - 1)
         IN  shorter \cup
             { Append(l, e) : l \in {x \in shorter : Len(x) = n - 1},
                              e \in ServiceEntries }

Listings == {l \in ListingsUpTo(MaxListing) : \A i, j \in 1..Len(l) : i # j => l[i] # l[j]}

\* The key of a model's version list in serviceModels.
sorted == << "s", "o", "r", "t", "e", "d" >>

\* The fold of New over cModels.List(): serviceModels[name]["sorted"] holds the
\* model's versions in the order listed, serviceModels[name][version] the
\* version's table names.
RECURSIVE BuildServiceModels(_, _)
BuildServiceModels(listing, sm) ==
    IF listing = <<>> THEN sm
    ELSE LET cModel == listing[1]
             old == IF cModel.Name \in DOMAIN sm THEN sm[cModel.Name] ELSE EmptyMap
             new == Put(Put(old, sorted, Append(Get(old, sorted), cModel.Version)),
                        cModel.Version, cModel.Tables)
         IN  BuildServiceModels(Tail(listing), Put(sm, cModel.Name, new))

\* A New that would take the first of the versions.
FirstVersion(versions) == versions[1]

\* The version New and Validate default to: the last of the model's versions.
LatestVersion(versions) == versions[Len(versions)]

\* The models whose versions New's search sorts: Go ranges over the map in an
\* order of its own and stops at the model it looks for, so these are that model
\* and any set `visited` of the others, or every model when it is not there.
SortedBySearch(sm, model, visited) ==
    IF model \in DOMAIN sm THEN (visited \cap DOMAIN sm) \cup {model} ELSE DOMAIN sm

\* serviceModels after New's search.
SortWhileSearching(sm, model, visited) ==
    [m \in DOMAIN sm |->
        IF m \in SortedBySearch(sm, model, visited)
        THEN Put(sm[m], sorted, Sort(sm[m][sorted]))
        ELSE sm[m]] @@ EmptyMap

\* mFound && vFound of New's search.
ModelVersionFound(sm, model, version) ==
    /\ model \in DOMAIN sm
    /\ \/ version = <<>>
       \/ version \in Range(sm[model][sorted])

\* New: the DataDirectory built from cfg when the service answers `listing`.
NewDataDirectory(cfg, listing, visited) ==
    LET model   == ToLower(cfg.Model)
        version == ToLower(cfg.ModelVersion)
        sm0     == BuildServiceModels(listing, EmptyMap)
        sm      == IF model # <<>> THEN SortWhileSearching(sm0, model, visited) ELSE sm0
    IN  [ RecordMaps    |-> <<>>,
          Site          |-> cfg.Site,
          Model         |-> model,
          ModelVersion  |-> IF model # <<>> /\ model \in DOMAIN sm /\ version = <<>>
                            THEN LatestVersion(sm[model][sorted])
                            ELSE version,
          DataVersion   |-> ToLower(cfg.DataVersion),
          Etl           |-> cfg.Etl,
          DirPath       |-> cfg.DataDirPath,
          header        |-> canonicalHeader,
          serviceModels |-> sm ]

\* What New returns: "config" without a DataDirPath, "service" when the data
\* models service does not answer, "notfound" when the model and version are not
\* among those retrieved, "nil" with the DataDirectory.
NewError(cfg, listing, serviceUp) ==
    IF cfg.DataDirPath = <<>> THEN "config"
    ELSE IF ~serviceUp THEN "service"
    ELSE IF /\ ToLower(cfg.Model) # <<>>
            /\ ~ModelVersionFound(BuildServiceModels(listing, EmptyMap),
                                  ToLower(cfg.Model), ToLower(cfg.ModelVersion))
         THEN "notfound"
    ELSE "nil"

\* The DataDirectory variable before New has returned one.
NoDataDirectory ==
    [ RecordMaps |-> <<>>, Site |-> <<>>, Model |-> <<>>, ModelVersion |-> <<>>,
      DataVersion |-> <<>>, Etl |-> <<>>, DirPath |-> <<>>, header |-> <<>>,
      serviceModels |-> EmptyMap ]

\* An error value: its kind, and for a rejection of Validate the record it is
\* about (its place in RecordMaps and its "line") and the field it names.
Error(kind) == [kind |-> kind, at |-> 0, line |-> <<>>, field |-> <<>>]

\* The nil error.
Nil == Error("nil")

\* The model names of a listing.
ModelNames(listing) == {listing[i].Name : i \in 1..Len(listing)}

\* Before New: no DataDirectory, the data directory holding `fs`.
Start(fs) ==
    /\ pc = "start"
    /\ d = NoDataDirectory
    /\ files = fs
    /\ w = <<>>
    /\ op = [name |-> "none"]
    /\ err = Nil
    /\ nOps = 0
    /\ nEdits = 0
    /\ handles = <<>>

\* New, for a configuration of cfgs and a service answer of listings.
NewFrom(cfgs, listings) ==
    /\ pc = "start"
    /\ \E cfg \in cfgs, listing \in listings, serviceUp \in BOOLEAN :
       \E visited \in SUBSET ModelNames(listing) :
          LET e == NewError(cfg, listing, serviceUp)
          IN  /\ err' = Error(e)
              /\ op' = [name |-> "New", cfg |-> cfg, listing |-> listing]
              /\ pc' = IF e = "nil" THEN "ready" ELSE "failed"
              /\ d' = IF e = "nil" THEN NewDataDirectory(cfg, listing, visited) ELSE d
              /\ UNCHANGED <<files, w, nOps, nEdits, handles>>

----------------------------------------------------------------------------
(* Paths, files and checksums *)

dot         == << "." >>
dotCsv      == << ".", "c", "s", "v" >>
metadataCsv == << "m", "e", "t", "a", "d", "a", "t", "a", ".", "c", "s", "v" >>
notesTxt    == << "n", "o", "t", "e", "s", ".", "t", "x", "t" >>
oldCsv      == << "o", "l", "d", ".", "c", "s", "v" >>
personCsv   == << "p", "e", "r", "s", "o", "n", ".", "c", "s", "v" >>
subDir      == << "s", "u", "b" >>
subVisitCsv == << "s", "u", "b", "/", "v", "i", "s", "i", "t", ".", "c", "s", "v" >>
dirPath     == << "t", "e", "s", "t", "_", "d", "a", "t", "a" >>

\* The greatest i with s[i] = c, 0 when there is none.
LastIndex(s, c) ==
    IF \E i \in 1..Len(s) : s[i] = c
    THEN CHOOSE i \in 1..Len(s) : s[i] = c /\ \A j \in (i + 1)..Len(s) : s[j] # c
    ELSE 0

\* filepath.Base of a path that does not end in a separator.
Base(path) == SubSeq(path, LastIndex(path, "/") + 1, Len(path))

\* filepath.Ext: from the last dot of the last element of the path.
Ext(path) ==
    LET i == LastIndex(Base(path), ".")
    IN  IF i = 0 THEN <<>> ELSE SubSeq(Base(path), i, Len(Base(path)))

\* strings.HasSuffix.
HasSuffix(s, suffix) ==
    /\ Len(suffix) <= Len(s)
    /\ SubSeq(s, Len(s) - Len(suffix) + 1, Len(s)) = suffix

\* strings.TrimSuffix.
TrimSuffix(s, suffix) ==
    IF HasSuffix(s, suffix) THEN SubSeq(s, 1, Len(s) - Len(suffix)) ELSE s

\* filepath.Join(dir, rel) for a clean relative path.
PathJoin(dir, rel) == IF rel = dot THEN dir ELSE dir \o <<"/">> \o rel

\* filepath.Rel(dir, path) for a path at or below dir.
Rel(dir, path) ==
    IF path = dir THEN dot ELSE SubSeq(path, Len(dir) + 2, Len(path))

\* The paths the data directory may hold, relative to it, in the lexical order
\* in which filepath.Walk visits them.
WalkOrder == << dot, metadataCsv, notesTxt, oldCsv, personCsv, subDir, subVisitCsv >>

\* A regular file and a directory.
File(content) == [isDir |-> FALSE, content |-> content, readable |-> TRUE]
Dir == [isDir |-> TRUE, content |-> <<>>, readable |-> TRUE]

\* The data directory of the tests: a ledger, two data files (one below a
\* subdirectory), a file that is no .csv and a directory named like one.
TestData ==
    (dot :> Dir) @@ (metadataCsv :> File(<<"m">>)) @@ (notesTxt :> File(<<"n">>))
    @@ (oldCsv :> Dir) @@ (personCsv :> File(<<"x">>)) @@ (subDir :> Dir)
    @@ (subVisitCsv :> File(<<"y", "z">>))

\* The contents a data file is given.
Contents == { <<"x">>, <<"y", "z">>, <<>> }

\* os.Open followed by io.Copy on path: whether the whole content is read.
CanRead(fs, dir, path) ==
    LET rel == Rel(dir, path)
    IN  /\ rel \in DOMAIN fs
        /\ ~fs[rel].isDir
        /\ fs[rel].readable

\* os.Open on path: whether it gives a handle.  A directory can be opened; it
\* is the read that fails on it.
CanOpen(fs, dir, path) ==
    /\ Rel(dir, path) \in DOMAIN fs
    /\ fs[Rel(dir, path)].readable

\* The open handles without the first one on path x.
RemoveFirst(open, x) ==
    IF \A i \in 1..Len(open) : open[i] # x THEN open
    ELSE LET at == CHOOSE i \in 1..Len(open) :
                       open[i] = x /\ \A j \in 1..(i - 1) : open[j] # x
         IN  SubSeq(open, 1, at - 1) \o SubSeq(open, at + 1, Len(open))

\* The open handles after a Close on each path of `closed`.
RECURSIVE Release(_, _)
Release(open, closed) ==
    IF closed = <<>> THEN open
    ELSE Release(RemoveFirst(open, Head(closed)), Tail(closed))

\* The digest of a content: sha256 is taken as free of collisions, and stands
\* here as the content's length followed by its bytes.
RECURSIVE Codes(_)
Codes(content) == IF content = <<>> THEN <<>> ELSE <<Code(Head(content))>> \o Codes(Tail(content))

Sha256(content) == <<Len(content)>> \o Codes(content)

hexdigits == << "0", "1", "2", "3", "4", "5", "6", "7", "8", "9",
                "a", "b", "c", "d", "e", "f" >>

\* hex.EncodeToString: two digits per byte.
RECURSIVE HexEncode(_)
HexEncode(bytes) ==
    IF bytes = <<>> THEN <<>>
    ELSE << hexdigits[(bytes[1] \div 16) + 1], hexdigits[(bytes[1] % 16) + 1] >>
         \o HexEncode(Tail(bytes))

\* The checksum populateRecord and Validate compute for the file at path.
SumString(fs, dir, path) == HexEncode(Sha256(fs[Rel(dir, path)].content))

----------------------------------------------------------------------------
(* Validate *)

\* A Validate that would take every required value as present.
NoneMissing(recordMap) == {}

\* The required values a record lacks.
MissingRequired(recordMap) == {h \in Required : Get(recordMap, h) = <<>>}

\* The record after the search of its model and version: an empty cdm-version
\* of a known model is set to the last of the model's versions.
DefaultVersion(dd, recordMap) ==
    IF /\ Get(recordMap, cdm) \in DOMAIN dd.serviceModels
       /\ Get(recordMap, cdmVersion) = <<>>
    THEN Put(recordMap, cdmVersion,
             LatestVersion(dd.serviceModels[Get(recordMap, cdm)][sorted]))
    ELSE recordMap

\* mFound && vFound of Validate's search.
RecordModelFound(dd, recordMap) ==
    /\ Get(recordMap, cdm) \in DOMAIN dd.serviceModels
    /\ \/ Get(recordMap, cdmVersion) = <<>>
       \/ Get(recordMap, cdmVersion)
              \in Range(dd.serviceModels[Get(recordMap, cdm)][sorted])

\* d.serviceModels[recordMap["cdm"]][recordMap["cdm-version"]].
TablesOf(dd, model, version) == Get(Get(dd.serviceModels, model), version)

\* A Validate that would not look the record's model, version and table up.
CheckRecordWithoutService(dd, recordMap, siteKey) ==
    IF MissingRequired(recordMap) # {} THEN "missing"
    ELSE IF dd.Site # <<>> /\ Get(recordMap, siteKey) # dd.Site THEN "site"
    ELSE IF dd.Model # <<>> /\ Get(recordMap, cdm) # dd.Model THEN "model"
    ELSE IF dd.ModelVersion # <<>> /\ Get(recordMap, cdmVersion) # dd.ModelVersion
         THEN "modelversion"
    ELSE IF /\ dd.DataVersion # <<>>
            /\ Get(recordMap, dataVersion) # <<>>
            /\ Get(recordMap, dataVersion) # dd.DataVersion
         THEN "dataversion"
    ELSE "nil"

\* A Validate that would not compare the record with what the DataDirectory
\* declares.
CheckRecordWithoutContext(dd, recordMap, siteKey) ==
    LET filled == DefaultVersion(dd, recordMap)
    IN  IF MissingRequired(recordMap) # {} THEN "missing"
        ELSE IF dd.Site # <<>> /\ Get(recordMap, siteKey) # dd.Site THEN "site"
        ELSE IF ~RecordModelFound(dd, recordMap) THEN "notfound"
        ELSE IF Get(filled, table)
                    \notin Range(TablesOf(dd, Get(filled, cdm), Get(filled, cdmVersion)))
             THEN "table"
        ELSE "nil"

\* The checks of Validate's first loop on one record, in the order of the code:
\* the kind of the first that fails, "nil" when none does.  siteKey is the key
\* the record's site is read from.
CheckRecord(dd, recordMap, siteKey) ==
    LET filled == DefaultVersion(dd, recordMap)
    IN  IF MissingRequired(recordMap) # {} THEN "missing"
        ELSE IF dd.Site # <<>> /\ Get(recordMap, siteKey) # dd.Site THEN "site"
        ELSE IF ~RecordModelFound(dd, recordMap) THEN "notfound"
        ELSE IF dd.Model # <<>> /\ Get(filled, cdm) # dd.Model THEN "model"
        ELSE IF dd.ModelVersion # <<>> /\ Get(filled, cdmVersion) # dd.ModelVersion
             THEN "modelversion"
        ELSE IF Get(filled, table)
                    \notin Range(TablesOf(dd, Get(filled, cdm), Get(filled, cdmVersion)))
             THEN "table"
        ELSE IF /\ dd.DataVersion # <<>>
                /\ Get(filled, dataVersion) # <<>>
                /\ Get(filled, dataVersion) # dd.DataVersion
             THEN "dataversion"
        ELSE "nil"

\* The record as Validate's first loop leaves it: the default version is written
\* once the required values and the site have passed.
CheckedRecord(dd, recordMap, siteKey) ==
    IF CheckRecord(dd, recordMap, siteKey) \in {"missing", "site"}
    THEN recordMap
    ELSE DefaultVersion(dd, recordMap)

\* A Validate whose first loop would go on after a rejection and report the
\* last record that fails.
RECURSIVE ValidateValuesFromLast(_, _, _, _)
ValidateValuesFromLast(dd, records, i, siteKey) ==
    IF i > Len(records) THEN [RecordMaps |-> records, kind |-> "nil", at |-> 0]
    ELSE LET kind == CheckRecord(dd, records[i], siteKey)
             rest == ValidateValuesFromLast(
                         dd, [records EXCEPT ![i] = CheckedRecord(dd, records[i], siteKey)],
                         i + 1, siteKey)
         IN  IF rest.kind = "nil" /\ kind # "nil"
             THEN [RecordMaps |-> rest.RecordMaps, kind |-> kind, at |-> i]
             ELSE rest

\* Validate's first loop from record i on: the records as it leaves them and
\* the first rejection.
RECURSIVE ValidateValues(_, _, _, _)
ValidateValues(dd, records, i, siteKey) ==
    IF i > Len(records) THEN [RecordMaps |-> records, kind |-> "nil", at |-> 0]
    ELSE LET kind == CheckRecord(dd, records[i], siteKey)
             next == [records EXCEPT ![i] = CheckedRecord(dd, records[i], siteKey)]
         IN  IF kind # "nil"
             THEN [RecordMaps |-> next, kind |-> kind, at |-> i]
             ELSE ValidateValues(dd, next, i + 1, siteKey)

\* A Validate that would report a file it cannot read as a checksum mismatch.
CheckChecksumOnly(dd, fs, recordMap) ==
    LET path == PathJoin(dd.DirPath, Get(recordMap, filename))
    IN  IF ~CanRead(fs, dd.DirPath, path) THEN "checksum"
        ELSE IF Get(recordMap, checksum) # SumString(fs, dd.DirPath, path) THEN "checksum"
        ELSE "nil"

\* The check of Validate's second loop on one record: "io" when the file cannot
\* be opened and read, "checksum" when its digest is not the record's.
CheckChecksum(dd, fs, recordMap) ==
    LET path == PathJoin(dd.DirPath, Get(recordMap, filename))
    IN  IF ~CanRead(fs, dd.DirPath, path) THEN "io"
        ELSE IF Get(recordMap, checksum) # SumString(fs, dd.DirPath, path) THEN "checksum"
        ELSE "nil"

\* Validate's second loop from record i on: the first failure.
RECURSIVE ValidateChecksums(_, _, _, _)
ValidateChecksums(dd, fs, records, i) ==
    IF i > Len(records) THEN [kind |-> "nil", at |-> 0]
    ELSE LET kind == CheckChecksum(dd, fs, records[i])
         IN  IF kind # "nil" THEN [kind |-> kind, at |-> i]
             ELSE ValidateChecksums(dd, fs, records, i + 1)

\* The files Validate's second loop opens from record i on: the file of each
\* record up to the first that cannot be opened, cannot be read or has another
\* checksum.  Each is closed by a defer, when Validate returns.
RECURSIVE OpenedByValidate(_, _, _, _)
OpenedByValidate(dd, fs, records, i) ==
    IF i > Len(records) THEN <<>>
    ELSE LET path == PathJoin(dd.DirPath, Get(records[i], filename))
         IN  IF ~CanOpen(fs, dd.DirPath, path) THEN <<>>
             ELSE <<path>> \o (IF CheckChecksum(dd, fs, records[i]) # "nil" THEN <<>>
                               ELSE OpenedByValidate(dd, fs, records, i + 1))

\* The errors Validate may return for a failure of `kind` at record `at`: a
\* missing value is reported for whichever required key Go's range over
\* headerReq meets first.
ValidateErrors(records, kind, at) ==
    IF kind = "nil" THEN {Nil}
    ELSE IF kind = "io" THEN {[Error("io") EXCEPT !.at = at]}
    ELSE { [kind |-> kind, at |-> at, line |-> Get(records[at], line), field |-> f] :
           f \in IF kind = "missing" THEN MissingRequired(records[at]) ELSE {<<>>} }

\* Most operations that add records (ReadMetadata, PopulateMetadataFromData) or
\* write them (WriteMetadata) run on one DataDirectory.
MaxOps == 2

\* What is kept of the operation that ran before a Validate: of an earlier
\* Validate its name only.
Before(o) == IF "prev" \in DOMAIN o THEN [name |-> o.name] ELSE o

\* Validate, reading each record's site from siteKey.
ValidateWith(name, siteKey) ==
    /\ pc = "ready"
    /\ \E values \in {ValidateValues(d, d.RecordMaps, 1, siteKey)} :
          \E sums \in {ValidateChecksums(d, files, values.RecordMaps, 1)} :
             LET result == IF values.kind # "nil" THEN values ELSE sums
             IN  /\ d' = [d EXCEPT !.RecordMaps = values.RecordMaps]
                 /\ err' \in ValidateErrors(values.RecordMaps, result.kind, result.at)
                 /\ \E opened \in {IF values.kind = "nil"
                                    THEN OpenedByValidate(d, files, values.RecordMaps, 1)
                                    ELSE <<>>} :
                       handles' = Release(handles \o opened, opened)
    /\ op' = [name |-> name, prev |-> Before(op), prevErr |-> err.kind]
    /\ UNCHANGED <<pc, files, w, nOps, nEdits>>

\* Validate of validate.go.
Validate == ValidateWith("Validate", organization)

\* Validate of datadirectory.go, which reads recordMap["site"].
ValidateRecordMaps == ValidateWith("ValidateRecordMaps", site)

----------------------------------------------------------------------------
(* PopulateMetadataFromData *)

\* collectInput: whether the prompt loop ends on `input`.  With no choices any
\* input ends it, the empty one too.
Accepts(choices, input) ==
    Len(choices) > 0 => \E i \in 1..Len(choices) : ToLower(input) = choices[i]

\* The model choice list: every model of serviceModels.
ModelChoices(dd) == DOMAIN dd.serviceModels

\* The version choice list: the versions of every model of serviceModels.
VersionChoices(dd) ==
    UNION {Range(dd.serviceModels[m][sorted]) : m \in DOMAIN dd.serviceModels}

\* collectInput on a choice list given as a set.
AcceptsOneOf(choices, input) == choices # {} => ToLower(input) \in choices

\* Whether the answers are ones PopulateMetadataFromData's prompts end on; a
\* value the DataDirectory has is not asked for (its answer is "").
AnswersAccepted(dd, ans) ==
    /\ dd.Site # <<>> => ans.site = <<>>
    /\ IF dd.Model = <<>> THEN AcceptsOneOf(ModelChoices(dd), ans.model)
                          ELSE ans.model = <<>>
    /\ IF dd.ModelVersion = <<>> THEN AcceptsOneOf(VersionChoices(dd), ans.version)
                                 ELSE ans.version = <<>>
    /\ dd.Etl # <<>> => ans.etl = <<>>

\* The DataDirectory once the missing values are collected.
Collected(dd, ans) ==
    [dd EXCEPT !.Site         = IF @ = <<>> THEN ans.site ELSE @,
               !.Model        = IF @ = <<>> THEN ToLower(ans.model) ELSE @,
               !.ModelVersion = IF @ = <<>> THEN ToLower(ans.version) ELSE @,
               !.Etl          = IF @ = <<>> THEN ans.etl ELSE @]

\* populateRecord skips directories, non-csv files, and the metadata file itself.
Skipped(dd, fs, path) ==
    \/ fs[Rel(dd.DirPath, path)].isDir
    \/ Ext(path) # dotCsv
    \/ Rel(dd.DirPath, path) = metadataCsv

\* The table name the file's name gives.
FileTable(path) == TrimSuffix(Base(path), dotCsv)

\* Whether populateRecord asks for the file's table name.
AsksTable(dd, fs, path) ==
    /\ ~Skipped(dd, fs, path)
    /\ FileTable(path) \notin Range(TablesOf(dd, dd.Model, dd.ModelVersion))

\* The value populateRecord gives a header value; none for a header value that
\* is not one of its cases.
RecordValue(dd, val, relPath, sumString, tableName) ==
    CASE val = organization -> dd.Site
      [] val = filename     -> relPath
      [] val = checksum     -> sumString
      [] val = cdm          -> dd.Model
      [] val = cdmVersion   -> dd.ModelVersion
      [] val = table        -> tableName
      [] val = etl          -> dd.Etl
      [] val = dataVersion  -> dd.DataVersion

\* The record populateRecord creates for the file at path.
NewRecord(dd, fs, path, tableName) ==
    LET relPath == Rel(dd.DirPath, path)
        values  == [val \in Range(dd.header) \cap Range(canonicalHeader) |->
                       RecordValue(dd, val, relPath,
                                   SumString(fs, dd.DirPath, path), tableName)]
    IN  Put(values, line, Itoa(Len(dd.RecordMaps) + 2))

\* populateRecord on one path; `input` is the answer to its table prompt.
populateRecord(dd, fs, path, input) ==
    IF Skipped(dd, fs, path) THEN [d |-> dd, kind |-> "nil"]
    ELSE IF ~CanRead(fs, dd.DirPath, path) THEN [d |-> dd, kind |-> "io"]
    ELSE LET tableName == IF AsksTable(dd, fs, path) THEN ToLower(input)
                          ELSE FileTable(path)
         IN  [d    |-> [dd EXCEPT !.RecordMaps =
                                     Append(@, NewRecord(dd, fs, path, tableName))],
              kind |-> "nil"]

\* filepath.Walk(d.DirPath, d.populateRecord) over the paths left to visit: it
\* stops at the first error.
RECURSIVE Walk(_, _, _, _)
Walk(dd, fs, rels, inputs) ==
    IF rels = <<>> THEN [d |-> dd, kind |-> "nil"]
    ELSE IF rels[1] \notin DOMAIN fs THEN Walk(dd, fs, Tail(rels), inputs)
    ELSE LET path == PathJoin(dd.DirPath, rels[1])
             r    == populateRecord(dd, fs, path, Get(inputs, rels[1]))
         IN  IF r.kind # "nil" THEN r ELSE Walk(r.d, fs, Tail(rels), inputs)

\* The files the walk opens: each file populateRecord does not skip and can
\* open, up to the first error.  populateRecord closes its file by a defer.
RECURSIVE OpenedByWalk(_, _, _, _)
OpenedByWalk(dd, fs, rels, inputs) ==
    IF rels = <<>> THEN <<>>
    ELSE IF rels[1] \notin DOMAIN fs THEN OpenedByWalk(dd, fs, Tail(rels), inputs)
    ELSE LET path == PathJoin(dd.DirPath, rels[1])
             r    == populateRecord(dd, fs, path, Get(inputs, rels[1]))
         IN  (IF ~Skipped(dd, fs, path) /\ CanOpen(fs, dd.DirPath, path)
              THEN <<path>> ELSE <<>>)
             \o (IF r.kind # "nil" THEN <<>> ELSE OpenedByWalk(r.d, fs, Tail(rels), inputs))

\* What the prompts are answered with.
SiteInputs    == {<<>>, org}
ModelInputs   == {<<>>, PEDSnet}
VersionInputs == {<<>>, v2_1_0, v1_0_0}
EtlInputs     == {<<>>, etlUrl}
TableInputs   == {Person, foobar}

Answers == [site : SiteInputs, model : ModelInputs, version : VersionInputs, etl : EtlInputs]

\* The files whose table name is asked for.
Asked(dd, fs) ==
    {rel \in DOMAIN fs : AsksTable(dd, fs, PathJoin(dd.DirPath, rel))}

PopulateMetadataFromData ==
    /\ pc = "ready"
    /\ nOps < MaxOps
    /\ \E ans \in Answers :
          /\ AnswersAccepted(d, ans)
          /\ \E dd \in {Collected(d, ans)} :
                \E inputs \in [Asked(dd, files) -> TableInputs] :
                    /\ \A rel \in DOMAIN inputs :
                          Accepts(TablesOf(dd, dd.Model, dd.ModelVersion), inputs[rel])
                    /\ \E r \in {Walk(dd, files, WalkOrder, inputs)} :
                          /\ d' = r.d
                          /\ err' = Error(r.kind)
                          /\ op' = [name  |-> "PopulateMetadataFromData",
                                    had   |-> Len(d.RecordMaps), after |-> op.name]
                    /\ \E opened \in {OpenedByWalk(dd, files, WalkOrder, inputs)} :
                          handles' = Release(handles \o opened, opened)
    /\ nOps' = nOps + 1
    /\ UNCHANGED <<pc, files, w, nEdits>>

----------------------------------------------------------------------------
(* WriteMetadata *)

\* fmt.Sprintf("\"%s\"\n", strings.Join(row, `","`)).
QuotedLine(row) == <<"\"">> \o Join(row, <<"\"", ",", "\"">>) \o <<"\"", "\n">>

\* The row of a record: its value for each header value, "" for one it lacks.
RECURSIVE RowOf(_, _)
RowOf(hdr, record) ==
    IF hdr = <<>> THEN <<>>
    ELSE <<Get(record, Head(hdr))>> \o RowOf(Tail(hdr), record)

\* The lines WriteMetadata writes for the records.
RECURSIVE RecordLines(_, _)
RecordLines(hdr, records) ==
    IF records = <<>> THEN <<>>
    ELSE QuotedLine(RowOf(hdr, records[1])) \o RecordLines(hdr, Tail(records))

\* The text WriteMetadata writes: the header line, then a line per record.
MetadataText(dd) == QuotedLine(dd.header) \o RecordLines(dd.header, dd.RecordMaps)

WriteMetadata ==
    /\ pc = "ready"
    /\ nOps < MaxOps
    /\ w' = MetadataText(d)
    /\ op' = [name |-> "WriteMetadata"]
    /\ err' = Nil
    /\ nOps' = nOps + 1
    /\ UNCHANGED <<pc, d, files, nEdits, handles>>

----------------------------------------------------------------------------
(* encoding/csv, as ReadMetadata sets it up: LazyQuotes and TrimLeadingSpace *)
(* off, the number of fields per record fixed by the first record            *)

\* The first position from i on that holds a comma or a newline; Len(text) + 1
\* when there is none.
RECURSIVE FieldEnd(_, _)
FieldEnd(text, i) ==
    IF i > Len(text) \/ text[i] \in {",", "\n"} THEN i ELSE FieldEnd(text, i + 1)

\* What follows a field that ends just before position j: another field of the
\* record (after a comma) or the end of the record.
AfterField(text, j) ==
    IF j <= Len(text) /\ text[j] = "," THEN "field" ELSE "record"

\* An unquoted field starting at i: it ends at the next comma or newline, and a
\* quote in it is an error.
BareField(text, i) ==
    LET j     == FieldEnd(text, i)
        field == SubSeq(text, i, j - 1)
    IN  [ ok    |-> "\"" \notin Range(field),
          field |-> field,
          then  |-> AfterField(text, j),
          next  |-> j + 1 ]

\* A quoted field, read from position j with `acc` read so far: a doubled quote
\* is a quote, a single one ends the field and must be followed by a comma, a
\* newline or the end of the text; the text ending inside the field is an error.
RECURSIVE QuotedField(_, _, _)
QuotedField(text, j, acc) ==
    IF j > Len(text) THEN [ok |-> FALSE, field |-> acc, then |-> "record", next |-> j]
    ELSE IF text[j] # "\"" THEN QuotedField(text, j + 1, Append(acc, text[j]))
    ELSE IF j + 1 <= Len(text) /\ text[j + 1] = "\""
         THEN QuotedField(text, j + 2, Append(acc, "\""))
    ELSE [ ok    |-> j + 1 > Len(text) \/ text[j + 1] \in {",", "\n"},
           field |-> acc,
           then  |-> AfterField(text, j + 1),
           next  |-> j + 2 ]

\* The field starting at i.
ReadField(text, i) ==
    IF i <= Len(text) /\ text[i] = "\"" THEN QuotedField(text, i + 1, <<>>)
    ELSE BareField(text, i)

\* The fields of the record from position i on, after `fields`.
RECURSIVE ReadFields(_, _, _)
ReadFields(text, i, fields) ==
    LET f == ReadField(text, i)
    IN  IF ~f.ok THEN [status |-> "error", record |-> fields, next |-> f.next]
        ELSE IF f.then = "field" THEN ReadFields(text, f.next, Append(fields, f.field))
        ELSE [status |-> "ok", record |-> Append(fields, f.field), next |-> f.next]

\* csv.Reader.Read at position i: empty lines are skipped; "eof" when no record
\* is left, "error" (with the fields read before it) for a malformed one.
RECURSIVE ReadRecord(_, _)
ReadRecord(text, i) ==
    IF i > Len(text) THEN [status |-> "eof", record |-> <<>>, next |-> i]
    ELSE IF text[i] = "\n" THEN ReadRecord(text, i + 1)
    ELSE ReadFields(text, i, <<>>)

----------------------------------------------------------------------------
(* ReadMetadata *)

\* The header after the loop that lower-cases it: the loop stops at the first
\* value that is not canonical, leaving the values after it as read.
RECURSIVE LowerHeader(_, _)
LowerHeader(hdr, i) ==
    IF i > Len(hdr) THEN hdr
    ELSE LET lowered == [hdr EXCEPT ![i] = ToLower(hdr[i])]
         IN  IF lowered[i] \in Range(canonicalHeader)
             THEN LowerHeader(lowered, i + 1)
             ELSE lowered

\* A ReadMetadata that would take every header value as canonical.
NoneUnexpected(hdr) == FALSE

\* Whether the loop found a header value that is not canonical.
UnexpectedHeader(hdr) == \E i \in 1..Len(hdr) : ToLower(hdr[i]) \notin Range(canonicalHeader)

\* The required header values the header lacks.
MissingHeader(hdr) == Required \ Range(hdr)

\* A ReadMetadata that would lower-case the values of every column.
KeepsNoCase(headerVal) == FALSE

\* Whether ReadMetadata keeps a column's value as read.
KeepsCase(headerVal) == headerVal \in {organization, filename, etl}

\* The value ReadMetadata stores for a column.
StoredValue(headerVal, val) == IF KeepsCase(headerVal) THEN val ELSE ToLower(val)

\* The map ReadMetadata builds from a row, column by column: a header value
\* that comes twice keeps the value of its last column.
RECURSIVE RowMap(_, _, _, _)
RowMap(hdr, record, i, recordMap) ==
    IF i > Len(record) THEN recordMap
    ELSE RowMap(hdr, record, i + 1,
                Put(recordMap, hdr[i], StoredValue(hdr[i], record[i])))

\* The record map of a row read as record number lineNo of the text.
ReadRecordMap(hdr, record, lineNo) ==
    Put(RowMap(hdr, record, 1, EmptyMap), line, Itoa(lineNo))

\* ReadMetadata's loop over the rows from position i on, lineNo records read so
\* far: each row is appended as it is read, and a malformed row, or one that has
\* not the header's number of fields, ends the loop with an error.
RECURSIVE ReadRows(_, _, _, _)
ReadRows(dd, text, i, lineNo) ==
    LET r == ReadRecord(text, i)
    IN  IF r.status = "eof" THEN [d |-> dd, kind |-> "nil"]
        ELSE IF r.status = "error" \/ Len(r.record) # Len(dd.header)
             THEN [d |-> dd, kind |-> "csv"]
        ELSE ReadRows([dd EXCEPT !.RecordMaps =
                          Append(@, ReadRecordMap(dd.header, r.record, lineNo + 1))],
                      text, r.next, lineNo + 1)

\* ReadMetadata on a text: the DataDirectory as it leaves it and the kind of
\* error it returns.
ReadMetadataResult(dd, text) ==
    LET first == ReadRecord(text, 1)
        read  == [dd EXCEPT !.header = first.record]
        lower == [dd EXCEPT !.header = LowerHeader(first.record, 1)]
    IN  IF first.status = "eof" THEN [d |-> read, kind |-> "eof"]
        ELSE IF first.status = "error" THEN [d |-> read, kind |-> "csv"]
        ELSE IF UnexpectedHeader(first.record) THEN [d |-> lower, kind |-> "header"]
        ELSE IF MissingHeader(lower.header) # {} THEN [d |-> lower, kind |-> "required"]
        ELSE ReadRows(lower, text, first.next, 1)

\* ReadMetadata on one of `inputs`, each a text with a name for it and the
\* header row it starts with.
ReadMetadataFrom(inputs) ==
    /\ pc = "ready"
    /\ nOps < MaxOps
    /\ \E in \in inputs :
          \E r \in {ReadMetadataResult(d, in.text)} :
              /\ d' = r.d
              /\ \E f \in IF r.kind = "required" THEN MissingHeader(r.d.header) ELSE {<<>>} :
                    err' = [Error(r.kind) EXCEPT !.field = f]
              /\ op' = [name |-> "ReadMetadata", input |-> in.name,
                        header |-> in.header, had |-> Len(d.RecordMaps),
                        after |-> op.name]
    /\ nOps' = nOps + 1
    /\ UNCHANGED <<pc, files, w, nEdits, handles>>

----------------------------------------------------------------------------
(* The ledger file: WriteMetadataToFile and ReadMetadataFromFile, and the   *)
(* WriteToFile and ReadFromFile of datadirectory.go                          *)

\* d.FilePath, as New sets it.
FilePath(dd) == PathJoin(dd.DirPath, metadataCsv)

\* Whether os.OpenFile(path, os.O_CREATE|os.O_WRONLY, 0644) opens the file: a
\* directory cannot be opened for writing.
CanWrite(fs, dir, path) == Rel(dir, path) \in DOMAIN fs => ~fs[Rel(dir, path)].isDir

\* The content of a file opened without O_TRUNC and without O_APPEND after
\* text is written to it: the writes start at offset 0 and replace the bytes
\* they cover; what the file held beyond them stays.
WrittenOver(old, text) == text \o SubSeq(old, Len(text) + 1, Len(old))

\* What the file at path holds before it is opened: nothing when O_CREATE
\* creates it.
Held(fs, dir, path) ==
    IF Rel(dir, path) \in DOMAIN fs THEN fs[Rel(dir, path)].content ELSE <<>>

\* WriteMetadataToFile, and WriteToFile, which is the same code under the
\* name it has in datadirectory.go.  The file it opens is held as an io.Writer
\* and never closed.
WriteFileAs(name) ==
    /\ pc = "ready"
    /\ nOps < MaxOps
    /\ IF CanWrite(files, d.DirPath, FilePath(d))
       THEN /\ files' = (Rel(d.DirPath, FilePath(d)) :>
                           File(WrittenOver(Held(files, d.DirPath, FilePath(d)),
                                            MetadataText(d)))) @@ files
            /\ err' = Nil
            /\ handles' = Append(handles, FilePath(d))
       ELSE /\ files' = files
            /\ err' = Error("io")
            /\ handles' = handles
    /\ op' = [name |-> name, held |-> Held(files, d.DirPath, FilePath(d))]
    /\ nOps' = nOps + 1
    /\ UNCHANGED <<pc, d, w, nEdits>>

WriteMetadataToFile == WriteFileAs("WriteMetadataToFile")

WriteToFile == WriteFileAs("WriteToFile")

\* The characters with code points 1 to 9, each named by its code point.
Runes == << "U+0001", "U+0002", "U+0003", "U+0004", "U+0005",
            "U+0006", "U+0007", "U+0008", "U+0009" >>

\* Go's string(n) of an int n: the one-character string of code point n, not
\* the digits of n.
RuneString(n) == << Runes[n] >>

\* ReadFromFile's loop over the rows: that of ReadMetadata, with
\* recordMap["line"] = string(line).
RECURSIVE ReadFromFileRows(_, _, _, _)
ReadFromFileRows(dd, text, i, lineNo) ==
    LET r == ReadRecord(text, i)
    IN  IF r.status = "eof" THEN [d |-> dd, kind |-> "nil"]
        ELSE IF r.status = "error" \/ Len(r.record) # Len(dd.header)
             THEN [d |-> dd, kind |-> "csv"]
        ELSE ReadFromFileRows(
                 [dd EXCEPT !.RecordMaps =
                     Append(@, Put(RowMap(dd.header, r.record, 1, EmptyMap),
                                   line, RuneString(lineNo + 1)))],
                 text, r.next, lineNo + 1)

\* ReadFromFile on the text of the file.
ReadFromFileResult(dd, text) ==
    LET first == ReadRecord(text, 1)
        read  == [dd EXCEPT !.header = first.record]
        lower == [dd EXCEPT !.header = LowerHeader(first.record, 1)]
    IN  IF first.status = "eof" THEN [d |-> read, kind |-> "eof"]
        ELSE IF first.status = "error" THEN [d |-> read, kind |-> "csv"]
        ELSE IF UnexpectedHeader(first.record) THEN [d |-> lower, kind |-> "header"]
        ELSE IF MissingHeader(lower.header) # {} THEN [d |-> lower, kind |-> "required"]
        ELSE ReadFromFileRows(lower, text, first.next, 1)

\* os.Open(d.FilePath) and the read of what the file holds, by ReadMetadata
\* or by the loop of ReadFromFile: `result` is what the read makes of it.  The
\* file is closed by a defer.
ReadFileAs(name, result) ==
    /\ pc = "ready"
    /\ nOps < MaxOps
    /\ IF CanRead(files, d.DirPath, FilePath(d))
       THEN \E r \in {result} :
               /\ d' = r.d
               /\ \E f \in IF r.kind = "required" THEN MissingHeader(r.d.header) ELSE {<<>>} :
                     err' = [Error(r.kind) EXCEPT !.field = f]
       ELSE /\ d' = d
            /\ err' = Error("io")
    /\ handles' = IF CanOpen(files, d.DirPath, FilePath(d))
                  THEN Release(Append(handles, FilePath(d)), <<FilePath(d)>>)
                  ELSE handles
    /\ op' = [name |-> name, input |-> "file", had |-> Len(d.RecordMaps),
              after |-> op.name]
    /\ nOps' = nOps + 1
    /\ UNCHANGED <<pc, files, w, nEdits>>

ReadMetadataFromFile ==
    ReadFileAs("ReadMetadataFromFile",
               ReadMetadataResult(d, Held(files, d.DirPath, FilePath(d))))

ReadFromFile ==
    ReadFileAs("ReadFromFile",
               ReadFromFileResult(d, Held(files, d.DirPath, FilePath(d))))

----------------------------------------------------------------------------
(* Changes from outside the package *)

\* Most changes made from outside to one DataDirectory and its files.
MaxEdits == 1

badsum == << "1", "2", "3", "a", "b", "c" >>

\* The values the tests and other callers assign to a field of a record.
EditValues ==
    (organization :> {foobar, Org}) @@ (filename :> {foobar})
    @@ (checksum :> {badsum}) @@ (cdm :> {pcornet, foobar})
    @@ (cdmVersion :> {<<>>, v2_0_0, v0_0_1}) @@ (table :> {foobar, visit})
    @@ (dataVersion :> {<<>>, dv5})

\* d.RecordMaps[i][key] = value, as the tests do.
SetField ==
    /\ pc = "ready"
    /\ nEdits < MaxEdits
    /\ \E i \in 1..Len(d.RecordMaps), key \in DOMAIN EditValues :
       \E value \in EditValues[key] :
          /\ Get(d.RecordMaps[i], key) # value
          /\ d' = [d EXCEPT !.RecordMaps[i] = Put(@, key, value)]
          /\ op' = [name |-> "SetField"]
    /\ nEdits' = nEdits + 1
    /\ err' = Nil
    /\ UNCHANGED <<pc, files, w, nOps, handles>>

\* delete(d.RecordMaps[i], key), as the tests do.
DeleteField ==
    /\ pc = "ready"
    /\ nEdits < MaxEdits
    /\ \E i \in 1..Len(d.RecordMaps) :
       \E key \in DOMAIN d.RecordMaps[i] \ {line} :
          /\ d' = [d EXCEPT !.RecordMaps[i] = Delete(@, key)]
          /\ op' = [name |-> "DeleteField"]
    /\ nEdits' = nEdits + 1
    /\ err' = Nil
    /\ UNCHANGED <<pc, files, w, nOps, handles>>

\* The data files of the directory.
DataFiles(fs) ==
    {rel \in DOMAIN fs : ~fs[rel].isDir /\ HasSuffix(rel, dotCsv) /\ rel # metadataCsv}

\* A data file is rewritten, removed, or made unreadable.
ChangeFile ==
    /\ pc = "ready"
    /\ nEdits < MaxEdits
    /\ \E rel \in DataFiles(files) :
          /\ \/ \E content \in Contents \ {files[rel].content} :
                   files' = [files EXCEPT ![rel].content = content]
             \/ files' = Delete(files, rel)
             \/ /\ files[rel].readable
                /\ files' = [files EXCEPT ![rel].readable = FALSE]
          /\ op' = [name |-> "ChangeFile"]
    /\ nEdits' = nEdits + 1
    /\ err' = Nil
    /\ UNCHANGED <<pc, d, w, nOps, handles>>

----------------------------------------------------------------------------
(* Configurations *)


\* The configurations New is explored with on its own.
NewConfigs ==
    [ DataDirPath  : {<<>>, dirPath},
      DataVersion  : {dv3},
      Etl          : {etlUrl},
      Model        : {<<>>, pedsnet, PEDSnet, pcornet, foo},
      ModelVersion : {<<>>, v2_0_0, v10_0_0, v0_0_1},
      Site         : {org} ]


----------------------------------------------------------------------------
(* The package at work on the test data directory *)

\* The header of a ledger without the optional columns.
headerRequired == << organization, filename, checksum, cdm, table, etl >>

\* A configuration of New.
Config(siteName, model, version, dataVer) ==
    [ DataDirPath |-> dirPath, DataVersion |-> dataVer, Etl |-> etlUrl,
      Model |-> model, ModelVersion |-> version, Site |-> siteName ]

\* The configurations of New: that of the tests (with the version left to New),
\* one that leaves everything to the prompts, and two between them.
CoreConfigs ==
    { Config(org, pedsnet, <<>>, dv3),
      Config(<<>>, <<>>, <<>>, <<>>),
      Config(org, <<>>, v2_0_0, <<>>),
      Config(<<>>, pedsnet, v2_0_0, dv3) }

\* What the service lists.
CoreListings ==
    { << [Name |-> pedsnet, Version |-> v2_0_0, Tables |-> <<person>>],
         [Name |-> pedsnet, Version |-> v2_1_0, Tables |-> <<person, visit>>],
         [Name |-> pcornet, Version |-> v1_0_0, Tables |-> <<demographic>>] >> }

\* A ledger of the test data directory, as WriteMetadata lays it out.
GoodLedger ==
    QuotedLine(canonicalHeader)
    \o QuotedLine(<< org, personCsv, HexEncode(Sha256(<<"x">>)), pedsnet, v2_1_0,
                     Person, etlUrl, dv3 >>)
    \o QuotedLine(<< org, subVisitCsv, HexEncode(Sha256(<<"y", "z">>)), pedsnet, v2_1_0,
                     visit, etlUrl, dv3 >>)

\* A ledger of another model, without the optional columns.
PcornetLedger ==
    QuotedLine(headerRequired)
    \o QuotedLine(<< org, personCsv, HexEncode(Sha256(<<"x">>)), pcornet,
                     demographic, etlUrl >>)

\* A ledger with an unknown header value: the text of TestReadMetadataUnknownHeader.
UnknownHeaderLedger == << "f", "o", "o", "\n", "b", "a", "r", "\n" >>

\* A ledger whose second row has not the header's number of fields.
ShortRowLedger == PcornetLedger \o QuotedLine(<< org >>)

\* The texts ReadMetadata is given.
Ledgers ==
    { [name |-> "good", header |-> canonicalHeader, text |-> GoodLedger],
      [name |-> "pcornet", header |-> headerRequired, text |-> PcornetLedger],
      [name |-> "unknown header", header |-> <<foo>>, text |-> UnknownHeaderLedger],
      [name |-> "short row", header |-> headerRequired, text |-> ShortRowLedger] }

Init == Start(TestData)

Next ==
    \/ NewFrom(CoreConfigs, CoreListings)
    \/ ReadMetadataFrom(Ledgers)
    \/ PopulateMetadataFromData
    \/ Validate
    \/ SetField
    \/ DeleteField
    \/ ChangeFile

Spec == Init /\ [][Next]_vars

\* The package with the Validate of datadirectory.go in place of validate.go's.
NextDataDirectoryGo ==
    \/ NewFrom(CoreConfigs, CoreListings)
    \/ ReadMetadataFrom(Ledgers)
    \/ PopulateMetadataFromData
    \/ ValidateRecordMaps
    \/ SetField
    \/ DeleteField
    \/ ChangeFile

SpecDataDirectoryGo == Init /\ [][NextDataDirectoryGo]_vars

----------------------------------------------------------------------------
(* Properties of Validate and PopulateMetadataFromData *)

\* The records of the DataDirectory.
Records == {d.RecordMaps[i] : i \in 1..Len(d.RecordMaps)}

\* The file a record names is in the data directory and can be opened and read.
FileReadable(recordMap) ==
    /\ Get(recordMap, filename) \in DOMAIN files
    /\ ~files[Get(recordMap, filename)].isDir
    /\ files[Get(recordMap, filename)].readable

\* The record's checksum is the hex digest of the file it names.
DigestStored(recordMap) ==
    Get(recordMap, checksum) = HexEncode(Sha256(files[Get(recordMap, filename)].content))

\* C1: once every record has passed Validate's other checks (Validate returns
\* nil, an I/O error or a checksum mismatch), Validate returns an I/O error for
\* a file that cannot be opened, a checksum mismatch for a file whose hex
\* SHA-256 digest is not the stored checksum, and nil only if (and whenever) the
\* stored checksum of every record is the digest of its file.
C1_ChecksumPass ==
    (op.name = "Validate" /\ err.kind \in {"nil", "io", "checksum"}) =>
        /\ err = Nil <=> \A r \in Records : FileReadable(r) /\ DigestStored(r)
        /\ err.kind = "io" => ~FileReadable(d.RecordMaps[err.at])
        /\ err.kind = "checksum" =>
              /\ FileReadable(d.RecordMaps[err.at])
              /\ ~DigestStored(d.RecordMaps[err.at])
        /\ err # Nil =>
              \A i \in 1..(err.at - 1) :
                  FileReadable(d.RecordMaps[i]) /\ DigestStored(d.RecordMaps[i])

\* Validate returns an I/O error for a file that is there but cannot be read.
C1_Witness ==
    /\ op.name = "Validate"
    /\ err.kind = "io"
    /\ Get(d.RecordMaps[err.at], filename) \in DOMAIN files
    /\ ~files[Get(d.RecordMaps[err.at], filename)].readable

\* C4: validation of an unmodified, freshly scanned directory succeeds: when
\* PopulateMetadataFromData, run right after New, returns nil, and Validate is
\* what runs next (no record and no file is changed in between), Validate
\* returns nil.
C4_ValidateAfterPopulate ==
    ( /\ op.name = "Validate"
      /\ op.prev.name = "PopulateMetadataFromData"
      /\ op.prev.after = "New"
      /\ op.prevErr = "nil" ) => err = Nil

\* The files a scan makes a record of: the regular .csv files of the data
\* directory other than its metadata.csv.
Qualifying ==
    {rel \in DOMAIN files : ~files[rel].isDir /\ Ext(rel) = dotCsv /\ rel # metadataCsv}

\* C5: a scan (PopulateMetadataFromData returning nil) of a directory with N
\* data files adds exactly N records, one per data file, each with the hex
\* SHA-256 digest of its file as checksum; so a second scan of unchanged files
\* gives the same checksums.
C5_ScanRecords ==
    (op.name = "PopulateMetadataFromData" /\ err = Nil) =>
        /\ Len(d.RecordMaps) = op.had + Cardinality(Qualifying)
        /\ \A rel \in Qualifying :
              \E i \in (op.had + 1)..Len(d.RecordMaps) :
                  /\ Get(d.RecordMaps[i], filename) = rel
                  /\ DigestStored(d.RecordMaps[i])

\* The service lists the record's model at the record's version with the
\* record's table.
Listed(recordMap) ==
    \E listing \in CoreListings : \E i \in 1..Len(listing) :
        /\ listing[i].Name = Get(recordMap, cdm)
        /\ listing[i].Version = Get(recordMap, cdmVersion)
        /\ Get(recordMap, table) \in Range(listing[i].Tables)

\* C6: Validate rejects every record whose cdm is no model of the service, whose
\* non-empty cdm-version is no version of that model, or whose table is no table
\* of the record's model at its (resolved) version: when it returns nil, every
\* record, with its version resolved, is listed by the service.
C6_KnownModelVersionTable ==
    (op.name = "Validate" /\ err = Nil) => \A r \in Records : Listed(r)

\* Validate rejects a record for its table, its model and version being known.
C6_Witness ==
    /\ op.name = "Validate"
    /\ err.kind = "table"
    /\ Get(d.RecordMaps[err.at], cdm) = pedsnet
    /\ Get(d.RecordMaps[err.at], cdmVersion) = v2_0_0
    /\ Get(d.RecordMaps[err.at], table) = visit

\* C7: with a Site declared, Validate rejects every record whose organization is
\* not exactly the Site, letter case included, and never rejects a record for
\* its organization when it is the Site.
C7_SiteCheck ==
    (op.name \in {"Validate", "ValidateRecordMaps"} /\ d.Site # <<>>) =>
        /\ err = Nil => \A r \in Records : Get(r, organization) = d.Site
        /\ (\A r \in Records : Get(r, organization) = d.Site) => err.kind # "site"

\* C8: Validate rejects a record whose cdm is not the declared Model (be its
\* cdm-version a version of the record's own model or not), whose (resolved)
\* cdm-version is not the declared ModelVersion, or whose non-empty data-version
\* is not the declared DataVersion: when it returns nil every record agrees with
\* what is declared.  A record with an empty data-version is never rejected for
\* its data version.
C8_DeclaredContext ==
    op.name = "Validate" =>
        /\ err = Nil =>
              \A r \in Records :
                  /\ d.Model # <<>> => Get(r, cdm) = d.Model
                  /\ d.ModelVersion # <<>> => Get(r, cdmVersion) = d.ModelVersion
                  /\ (d.DataVersion # <<>> /\ Get(r, dataVersion) # <<>>) =>
                        Get(r, dataVersion) = d.DataVersion
        /\ err.kind = "dataversion" =>
              /\ Get(d.RecordMaps[err.at], dataVersion) # <<>>
              /\ Get(d.RecordMaps[err.at], dataVersion) # d.DataVersion

\* Validate rejects a record of another model than the declared one, at a
\* version of that other model.
C8_Witness ==
    /\ op.name = "Validate"
    /\ err.kind = "model"
    /\ d.Model = pedsnet
    /\ Get(d.RecordMaps[err.at], cdm) = pcornet
    /\ Get(d.RecordMaps[err.at], cdmVersion) = v1_0_0

\* C9: Validate rejects whenever a record lacks one of the six required fields
\* or has it empty, whatever else the record and the DataDirectory hold: when it
\* returns nil every record has them all, non-empty.  An absent or empty
\* cdm-version or data-version alone is never rejected as missing: the field a
\* rejection names as missing is one of the six, absent or empty in the record.
C9_RequiredFields ==
    op.name = "Validate" =>
        /\ err = Nil =>
              \A r \in Records :
                  \A h \in {organization, filename, checksum, cdm, table, etl} :
                      h \in DOMAIN r /\ r[h] # <<>>
        /\ err.kind = "missing" =>
              /\ err.field \in {organization, filename, checksum, cdm, table, etl}
              /\ Get(d.RecordMaps[err.at], err.field) = <<>>

\* Validate rejects a record for a required field that it has not at all.
C9_Witness ==
    /\ op.name = "Validate"
    /\ err.kind = "missing"
    /\ err.field \in {organization, filename, checksum, cdm, table, etl}
    /\ err.field \notin DOMAIN d.RecordMaps[err.at]

----------------------------------------------------------------------------
(* The metadata.csv codec on its own: records are written and read back, and *)
(* texts with every kind of header row are read                              *)

\* Most records of the DataDirectory whose ledger is written.
MaxRecords == 2

\* A site name with the character the csv format quotes fields with.
quoteOrg == << "o", "\"", "g" >>

CodecSites == {org, quoteOrg}

\* The record populateRecord creates for person.csv in a DataDirectory of the
\* given header and Site: a value for each header value, and line.
CodecRecord(hdr, siteName) ==
    Restrict((organization :> siteName) @@ (filename :> personCsv)
             @@ (checksum :> HexEncode(Sha256(<<"x">>))) @@ (cdm :> pedsnet)
             @@ (cdmVersion :> v2_1_0) @@ (table :> person) @@ (etl :> etlUrl)
             @@ (dataVersion :> dv3) @@ (line :> <<"2">>),
             Range(hdr) \cup {line})

\* The record lists of at most MaxRecords records.
CodecRecordMaps(hdr) ==
    UNION { [1..n -> {CodecRecord(hdr, s) : s \in CodecSites}] : n \in 0..MaxRecords }

\* strings.ToUpper, for header rows in capitals.
ToUpperChar(c) ==
    IF \E i \in 1..Len(Lower) : Lower[i] = c THEN Upper[IndexOf(Lower, c)] ELSE c

RECURSIVE ToUpper(_)
ToUpper(s) == IF s = <<>> THEN <<>> ELSE <<ToUpperChar(Head(s))>> \o ToUpper(Tail(s))

RECURSIVE ToUpperAll(_)
ToUpperAll(strs) ==
    IF strs = <<>> THEN <<>> ELSE <<ToUpper(Head(strs))>> \o ToUpperAll(Tail(strs))

\* seq without its element i.
RemoveAt(seq, i) == SubSeq(seq, 1, i - 1) \o SubSeq(seq, i + 1, Len(seq))

\* The header rows read: the canonical one, in capitals, without the optional
\* values, without one value, with a value that is not canonical, with one twice.
HeaderRows ==
    { canonicalHeader, headerRequired, ToUpperAll(canonicalHeader),
      [canonicalHeader EXCEPT ![4] = ToUpper(@)],
      [headerRequired EXCEPT ![2] = foo],
      Append(canonicalHeader, foo), Append(headerRequired, line),
      Append(headerRequired, organization) }
    \cup { RemoveAt(canonicalHeader, i) : i \in 1..Len(canonicalHeader) }

\* A row of as many values as the header row has.
RECURSIVE RowFor(_)
RowFor(hdr) == IF hdr = <<>> THEN <<>> ELSE << <<"V">> >> \o RowFor(Tail(hdr))

\* A text of a header row and one row of values, unquoted.
HeaderText(hdr) ==
    Join(hdr, <<",">>) \o <<"\n">> \o Join(RowFor(hdr), <<",">>) \o <<"\n">>

HeaderTexts == { [name |-> "header", header |-> hdr, text |-> HeaderText(hdr)] : hdr \in HeaderRows }

\* The text WriteMetadata wrote last.
Written == { [name |-> "written", header |-> ReadRecord(w, 1).record, text |-> w] }

InitCodec ==
    /\ pc = "ready"
    /\ \E hdr \in {canonicalHeader, headerRequired} : \E records \in CodecRecordMaps(hdr) :
          d = [NewDataDirectory(Config(org, pedsnet, v2_1_0, dv3),
                                CHOOSE l \in CoreListings : TRUE, {})
                  EXCEPT !.header = hdr, !.RecordMaps = records]
    /\ files = TestData
    /\ w = <<>>
    /\ op = [name |-> "none"]
    /\ err = Nil
    /\ nOps = 0
    /\ nEdits = 0
    /\ handles = <<>>

NextCodec ==
    \/ WriteMetadata
    \/ ReadMetadataFrom(Written)
    \/ ReadMetadataFrom(HeaderTexts)

SpecCodec == InitCodec /\ [][NextCodec]_vars

\* C2: round trip: ReadMetadata on the text WriteMetadata has just written
\* gives as many records as were written, in the same order, each equal to the
\* original field for field but for line: the read returns nil and appends,
\* after the had originals, had records that are the originals without line.
C2_WriteReadRoundTrip ==
    (op.name = "ReadMetadata" /\ op.input = "written" /\ op.after = "WriteMetadata") =>
        /\ err = Nil
        /\ Len(d.RecordMaps) = 2 * op.had
        /\ \A i \in 1..op.had :
              Delete(d.RecordMaps[op.had + i], line) = Delete(d.RecordMaps[i], line)

\* The values of a header row, lower-cased.
Lowered(hdr) == {ToLower(hdr[i]) : i \in 1..Len(hdr)}

\* The six required header values.
SixRequired == {organization, filename, checksum, cdm, table, etl}

\* C3: ReadMetadata returns an error (and loads no record) whenever the header
\* row, each value lower-cased, has a value that is not one of the canonical
\* eight, and whenever it lacks one of the six required values; a header row of
\* canonical values only that has all six is accepted: ReadMetadata goes on to
\* the rows, and returns nil when they are well formed.
C3_HeaderValidation ==
    op.name = "ReadMetadata" =>
        LET unknown == Lowered(op.header) \ Range(canonicalHeader)
            missing == SixRequired \ Lowered(op.header)
        IN  /\ (unknown # {} \/ missing # {}) =>
                  (err # Nil /\ Len(d.RecordMaps) = op.had)
            /\ (unknown = {} /\ missing = {}) =>
                  /\ err.kind \in {"nil", "csv"}
                  /\ d.header = [i \in 1..Len(op.header) |-> ToLower(op.header[i])]
                  /\ op.input = "header" =>
                        (err = Nil /\ Len(d.RecordMaps) = op.had + 1)

\* A header row in capitals is accepted and leaves the canonical header.
C3_Witness ==
    /\ op.name = "ReadMetadata" /\ op.input = "header"
    /\ op.header = ToUpperAll(canonicalHeader)
    /\ err = Nil
    /\ d.header = canonicalHeader

\* C11: ReadMetadata stores each value of a data row under the header name of
\* its column, lower-cased, except in the columns organization, filename and
\* etl, whose values are stored exactly as read: of a row with "V" in every
\* column, the record holds "V" for those three and "v" for the others, under
\* the lower-cased header names (and line) and no other.
C11_StoredValues ==
    (op.name = "ReadMetadata" /\ op.input = "header" /\ err = Nil) =>
        LET recordMap == d.RecordMaps[Len(d.RecordMaps)]
        IN  /\ DOMAIN recordMap = Lowered(op.header) \cup {line}
            /\ \A i \in 1..Len(op.header) :
                  recordMap[ToLower(op.header[i])] =
                      IF ToLower(op.header[i]) \in {organization, filename, etl}
                      THEN <<"V">> ELSE <<"v">>

\* A row under a header in capitals is stored with its organization as read and
\* its cdm lower-cased.
C11_Witness ==
    /\ op.name = "ReadMetadata" /\ op.input = "header"
    /\ op.header = ToUpperAll(canonicalHeader)
    /\ err = Nil
    /\ d.RecordMaps[Len(d.RecordMaps)][organization] = <<"V">>
    /\ d.RecordMaps[Len(d.RecordMaps)][cdm] = <<"v">>

\* The number of newlines in a text.
Newlines(text) == Cardinality({i \in 1..Len(text) : text[i] = "\n"})

\* A line of fields: each wrapped in double quotes, commas between them, a
\* newline at the end.
LineOfFields(fields) ==
    Join([i \in 1..Len(fields) |-> <<"\"">> \o fields[i] \o <<"\"">>], <<",">>) \o <<"\n">>

\* The fields of a record in the order of the header, the empty string for a
\* field the record lacks.
FieldsInOrder(hdr, record) ==
    [i \in 1..Len(hdr) |-> IF hdr[i] \in DOMAIN record THEN record[hdr[i]] ELSE <<>>]

\* The lines of the first n records, in store order.
RECURSIVE LinesOfRecords(_, _, _)
LinesOfRecords(hdr, records, n) ==
    IF n = 0 THEN <<>>
    ELSE LinesOfRecords(hdr, records, n - 1)
         \o LineOfFields(FieldsInOrder(hdr, records[n]))

\* C13: WriteMetadata emits exactly 1+n lines for n stored records: the header
\* first, then a line per record in store order; every line is its fields, each
\* wrapped in double quotes, joined by commas and ended by a newline; the
\* fields of a record come in header order, the empty string for a field the
\* record lacks.
C13_WrittenLines ==
    op.name = "WriteMetadata" =>
        /\ Newlines(w) = 1 + Len(d.RecordMaps)
        /\ w = LineOfFields(d.header)
                 \o LinesOfRecords(d.header, d.RecordMaps, Len(d.RecordMaps))

----------------------------------------------------------------------------
(* The ledger file on its own: a DataDirectory with records is written to   *)
(* the metadata.csv of its directory, and the file is read                  *)

\* The data directory with each kind of metadata.csv: one that is no ledger,
\* a ledger of two records, none, and a directory of that name.
LedgerDirs ==
    { TestData,
      (metadataCsv :> File(GoodLedger)) @@ TestData,
      Delete(TestData, metadataCsv),
      (metadataCsv :> Dir) @@ TestData }

InitFile ==
    /\ pc = "ready"
    /\ \E hdr \in {canonicalHeader, headerRequired} : \E records \in CodecRecordMaps(hdr) :
          d = [NewDataDirectory(Config(org, pedsnet, v2_1_0, dv3),
                                CHOOSE l \in CoreListings : TRUE, {})
                  EXCEPT !.header = hdr, !.RecordMaps = records]
    /\ files \in LedgerDirs
    /\ w = <<>>
    /\ op = [name |-> "none"]
    /\ err = Nil
    /\ nOps = 0
    /\ nEdits = 0
    /\ handles = <<>>

NextFile ==
    \/ WriteMetadataToFile
    \/ ReadMetadataFromFile

SpecFile == InitFile /\ [][NextFile]_vars

\* The same with the methods of datadirectory.go.
NextFileDataDirectoryGo ==
    \/ WriteToFile
    \/ ReadFromFile

SpecFileDataDirectoryGo == InitFile /\ [][NextFileDataDirectoryGo]_vars

\* C12: each record a parse creates carries in line the decimal 1-based line
\* number of its row in the text: the header being line 1, the k-th data row of
\* the parsed text gets line = k+1, in decimal (the first one "2").
C12_LineNumbers ==
    op.name \in {"ReadMetadata", "ReadMetadataFromFile", "ReadFromFile"} =>
        \A k \in 1..(Len(d.RecordMaps) - op.had) :
            d.RecordMaps[op.had + k][line] = Itoa(k + 1)

\* C14: WriteMetadataToFile overwrites an existing metadata.csv: after it
\* returns without error, the content of <DirPath>/metadata.csv is exactly the
\* serialization of the current header and records, whatever the file held
\* before, a longer ledger included.
C14_FileOverwritten ==
    (op.name \in {"WriteMetadataToFile", "WriteToFile"} /\ err = Nil) =>
        /\ metadataCsv \in DOMAIN files
        /\ files[metadataCsv].content = MetadataText(d)

----------------------------------------------------------------------------
(* The order of Validate's checks *)

\* The first of the six steps a record fails, 0 when it passes them all:
\* 1 a required field is absent or empty, 2 its organization is not the Site,
\* 3 its cdm, or its non-empty cdm-version, is not in the catalog, 4 its cdm or
\* its cdm-version is not the declared one, 5 its table is no table of its
\* model at its version, 6 its data-version is not the declared one.
FailingStep(recordMap) ==
    LET model   == Get(recordMap, cdm)
        version == Get(recordMap, cdmVersion)
    IN  IF \E h \in SixRequired : Get(recordMap, h) = <<>> THEN 1
        ELSE IF d.Site # <<>> /\ Get(recordMap, organization) # d.Site THEN 2
        ELSE IF \/ model \notin DOMAIN d.serviceModels
                \/ version # <<>> /\ version \notin Range(d.serviceModels[model][sorted])
             THEN 3
        ELSE IF \/ d.Model # <<>> /\ model # d.Model
                \/ d.ModelVersion # <<>> /\ version # d.ModelVersion
             THEN 4
        ELSE IF Get(recordMap, table) \notin Range(Get(d.serviceModels[model], version))
             THEN 5
        ELSE IF /\ d.DataVersion # <<>>
                /\ Get(recordMap, dataVersion) # <<>>
                /\ Get(recordMap, dataVersion) # d.DataVersion
             THEN 6
        ELSE 0

\* The step a rejection of Validate belongs to.
StepOf(kind) ==
    CASE kind = "missing" -> 1
      [] kind = "site" -> 2
      [] kind = "notfound" -> 3
      [] kind \in {"model", "modelversion"} -> 4
      [] kind = "table" -> 5
      [] kind = "dataversion" -> 6

\* C17: Validate runs in two passes and aborts on the first rejection: a
\* checksum or file-open failure is reported only if every record passes all
\* the checks of steps 1 to 6, and the rejection reported is that of the first
\* record in store order that fails, at the earliest step that record fails in
\* the order required field, organization, model/version resolution, context
\* agreement, table, data-version.
C17_FirstRejection ==
    op.name = "Validate" =>
        /\ err.kind \in {"nil", "io", "checksum"} =>
              \A i \in 1..Len(d.RecordMaps) : FailingStep(d.RecordMaps[i]) = 0
        /\ err.kind \notin {"nil", "io", "checksum"} =>
              /\ \A i \in 1..(err.at - 1) : FailingStep(d.RecordMaps[i]) = 0
              /\ FailingStep(d.RecordMaps[err.at]) = StepOf(err.kind)
              /\ err.line = Get(d.RecordMaps[err.at], line)

\* Validate rejects the third record for its model although the file of the
\* first one has changed since its checksum was taken, and a later step (its
\* table, which is none of the declared model) would reject the third too.
C17_Witness ==
    /\ op.name = "Validate"
    /\ err.kind = "model"
    /\ err.at = 3
    /\ FileReadable(d.RecordMaps[1])
    /\ ~DigestStored(d.RecordMaps[1])
    /\ Get(d.RecordMaps[3], table) \notin Range(Get(d.serviceModels[d.Model], d.ModelVersion))

----------------------------------------------------------------------------
(* Validate on what New made of the catalog: every listing of the service,  *)
(* a DataDirectory with and without a Model, records without a cdm-version   *)

\* A ledger without the cdm-version column, of one pedsnet record.
VersionlessLedger(tableName) ==
    QuotedLine(headerRequired)
    \o QuotedLine(<< org, personCsv, HexEncode(Sha256(<<"x">>)), pedsnet,
                     tableName, etlUrl >>)

VersionlessLedgers ==
    { [name |-> "versionless", header |-> headerRequired,
       text |-> VersionlessLedger(tableName)] : tableName \in {person, visit} }

\* Configurations that leave the version to New, with and without a Model.
CatalogConfigs ==
    { Config(org, <<>>, <<>>, dv3), Config(org, pedsnet, <<>>, dv3),
      Config(org, pcornet, <<>>, dv3) }

InitCatalog == Start(TestData)

NextCatalog ==
    \/ NewFrom(CatalogConfigs, Listings)
    \/ ReadMetadataFrom(VersionlessLedgers)
    \/ Validate

SpecCatalog == InitCatalog /\ [][NextCatalog]_vars

\* The number a string of decimal digits stands for.
RECURSIVE Atoi(_)
Atoi(s) ==
    IF s = <<>> THEN 0
    ELSE 10 * Atoi(SubSeq(s, 1, Len(s) - 1)) + (IndexOf(Digits, s[Len(s)]) - 1)

\* The parts of a version between its dots, as numbers.
RECURSIVE SemverParts(_)
SemverParts(v) ==
    IF \E i \in 1..Len(v) : v[i] = "."
    THEN LET dotAt == CHOOSE i \in 1..Len(v) :
                          v[i] = "." /\ \A j \in 1..(i - 1) : v[j] # "."
         IN  <<Atoi(SubSeq(v, 1, dotAt - 1))>> \o SemverParts(SubSeq(v, dotAt + 1, Len(v)))
    ELSE <<Atoi(v)>>

\* Semantic version order on versions of three parts: by major, then minor,
\* then patch, each as a number.
SemverLess(a, b) ==
    LET x == SemverParts(a)
        y == SemverParts(b)
    IN  \/ x[1] < y[1]
        \/ x[1] = y[1] /\ x[2] < y[2]
        \/ x[1] = y[1] /\ x[2] = y[2] /\ x[3] < y[3]

\* The greatest of a set of versions in semantic version order.
SemverLatest(versions) == CHOOSE v \in versions : \A u \in versions : ~SemverLess(v, u)

\* The versions the catalog holds for a model.
CatalogVersions(model) == Range(d.serviceModels[model][sorted])

\* C15: when a record names a known cdm and has an empty cdm-version, Validate
\* fills cdm-version with the model's latest version, the greatest of the
\* model's catalog versions in semantic version order, whatever the catalog
\* and the configuration (a DataDirectory without a Model included), and the
\* later checks use the filled value: in a step of Validate a cdm-version that
\* was empty and is not any more is that greatest version, every such record
\* is filled when all records pass the first loop, and when Validate returns
\* nil the record's table is a table of the model at the filled version.
C15_DefaultLatestVersion ==
    [][ op'.name = "Validate" =>
          \A i \in 1..Len(d.RecordMaps) :
              ( /\ Get(d.RecordMaps[i], cdm) \in DOMAIN d.serviceModels
                /\ Get(d.RecordMaps[i], cdmVersion) = <<>> ) =>
                 LET model  == Get(d.RecordMaps[i], cdm)
                     filled == Get(d'.RecordMaps[i], cdmVersion)
                 IN  /\ filled # <<>> => filled = SemverLatest(CatalogVersions(model))
                     /\ err'.kind \in {"nil", "io", "checksum"} => filled # <<>>
                     /\ err' = Nil =>
                           Get(d.RecordMaps[i], table)
                               \in Range(TablesOf(d, model, filled)) ]_vars

----------------------------------------------------------------------------
(* What the operations do to the records and the header *)

\* What the service lists, in order or not: its listing, and one of two
\* versions with the later one first.
CallListings ==
    CoreListings
    \cup { << [Name |-> pedsnet, Version |-> v2_1_0, Tables |-> <<person, visit>>],
              [Name |-> pedsnet, Version |-> v2_0_0, Tables |-> <<person>>] >> }

\* The package without changes from outside: New, then any sequence of
\* ReadMetadata, PopulateMetadataFromData, Validate and WriteMetadata.
InitCalls == Start(TestData)

NextCalls ==
    \/ NewFrom(CoreConfigs, CallListings)
    \/ ReadMetadataFrom(Ledgers \cup VersionlessLedgers)
    \/ PopulateMetadataFromData
    \/ Validate
    \/ WriteMetadata

SpecCalls == InitCalls /\ [][NextCalls]_vars

\* C18: there is no partial result: when ReadMetadata or
\* PopulateMetadataFromData returns an error (a malformed row, a bad header, a
\* file that cannot be read), the record store holds exactly the records it
\* held before the call, none of the records built before the failure.
C18_NoPartialResult ==
    [][ (op'.name \in {"ReadMetadata", "PopulateMetadataFromData"} /\ err' # Nil) =>
            d'.RecordMaps = d.RecordMaps ]_vars

\* C19: header invariant: in every state reachable by any sequence of New,
\* ReadMetadata (successful or failed), PopulateMetadataFromData, Validate and
\* WriteMetadata, the active header is a duplicate-free sequence of lower-case
\* names of the canonical eight that includes all six required fields.
C19_HeaderInvariant ==
    pc = "ready" =>
        /\ \A i, j \in 1..Len(d.header) : i # j => d.header[i] # d.header[j]
        /\ Range(d.header) \subseteq Range(canonicalHeader)
        /\ SixRequired \subseteq Range(d.header)

\* C20: across any sequence of ReadMetadata, PopulateMetadataFromData,
\* Validate and WriteMetadata calls, a record already in the store is never
\* removed, reordered or changed in any field; the only change ever made to an
\* existing record is Validate replacing an empty cdm-version by the model's
\* latest version, and new records are only appended after the existing ones.
C20_RecordsKept ==
    [][ op'.name \in {"ReadMetadata", "PopulateMetadataFromData", "Validate",
                      "WriteMetadata"} =>
          /\ Len(d'.RecordMaps) >= Len(d.RecordMaps)
          /\ \A i \in 1..Len(d.RecordMaps) :
                \/ d'.RecordMaps[i] = d.RecordMaps[i]
                \/ /\ op'.name = "Validate"
                   /\ Get(d.RecordMaps[i], cdmVersion) = <<>>
                   /\ Get(d.RecordMaps[i], cdm) \in DOMAIN d.serviceModels
                   /\ d'.RecordMaps[i] =
                         Put(d.RecordMaps[i], cdmVersion,
                             SemverLatest(CatalogVersions(Get(d.RecordMaps[i], cdm)))) ]_vars

\* C21: every file handle opened by ReadMetadataFromFile, WriteMetadataToFile,
\* Validate or populateRecord is released by the time the operation returns,
\* on the success path and on every error path: no handle stays open after any
\* sequence of these operations.
C21_HandlesReleased == handles = <<>>

\* The tables the catalog holds for the context Model and ModelVersion.
ContextTables == Range(Get(Get(d.serviceModels, d.Model), d.ModelVersion))

\* C22: every record emitted by PopulateMetadataFromData carries a table name
\* that is a known table of the context Model and ModelVersion in the catalog:
\* the file's base name when that is such a table, a prompt answer out of that
\* table list otherwise; also when Model and ModelVersion were themselves
\* collected by prompt during the same call.
C22_KnownTable ==
    op.name = "PopulateMetadataFromData" =>
        \A i \in (op.had + 1)..Len(d.RecordMaps) :
            LET recordMap == d.RecordMaps[i]
                baseName  == TrimSuffix(Base(Get(recordMap, filename)), dotCsv)
            IN  /\ Get(recordMap, table) \in ContextTables
                /\ baseName \in ContextTables => Get(recordMap, table) = baseName

----------------------------------------------------------------------------
(* New on its own *)

InitNew == Start(EmptyMap)

NextNew == NewFrom(NewConfigs, Listings)

SpecNew == InitNew /\ [][NextNew]_vars

\* The versions a listing gives for a model.
ListedVersions(listing, model) ==
    {listing[i].Version : i \in {k \in 1..Len(listing) : listing[k].Name = model}}

C16_VersionsSorted ==
    (op.name = "New" /\ err = Nil) =>
        \A model \in DOMAIN d.serviceModels :
            LET versions == d.serviceModels[model][sorted]
            IN  \A i \in 1..(Len(versions) - 1) : SemverLess(versions[i], versions[i + 1])

====
